---- MODULE Spec2Model ----
(***************************************************************************)
(* xoverlay: the debounced redraw scheduler (requestRedraw/startRenderer), *)
(* the window lifecycle (run, CreateWindow, HandleEvents, Close) and the   *)
(* shared-memory transfer of RenderImage, as one state machine.            *)
(*                                                                         *)
(* Two threads: the main goroutine (run) and the renderer goroutine        *)
(* (startRenderer).  A critical section of renderMu is one atomic step.    *)
(* Time is in milliseconds; the clock saturates at MaxTime.                *)
(***************************************************************************)
EXTENDS Integers, Sequences, FiniteSets, TLC

\* ---------------------------------------------------------------- bounds
\* Clock granularity and horizon (ms).
TickMs == 20
MaxTime == 120
\* Number of requestRedraw calls in a run.
MaxRequests == 2
\* The decoded image's bounds (loadImage).
ImgW == 2
ImgH == 1
\* Largest width a ConfigureNotify carries.
MaxDim == 2

\* ----------------------------------------------------- program constants
DebounceWindow == 50
PollInterval == 5
\* time.Time{}: the zero value of nextRedraw, before every clock reading.
ZeroTime == -1

Min(a, b) == IF a < b THEN a ELSE b
Max(a, b) == IF a > b THEN a ELSE b

\* Values of the events HandleEvents receives.
Widths == 1..MaxDim
Heights == {ImgH, ImgH + 1}
ClickXs == {-32768, -1, 0, 1, MaxDim, MaxDim + 1, 32767}

VARIABLES
    \* ImageWindow fields
    imageOpacity,   \* float64, kept as the exact quotient [num, den]
    windowWidth,
    windowHeight,
    nextRedraw,
    dirty,
    wg,             \* sync.WaitGroup counter
    ctxDone,        \* cancelRenderer() has been called
    connClosed,     \* conn.Close() has been called
    \* the clock
    now,
    \* main goroutine (run)
    mPc,
    event,          \* the event the step just taken handled, if it handled one
    endEvent,       \* the kind of event HandleEvents returned on
    runErr,         \* the error run returns
    exitStatus,     \* the process's exit status, -1 while it runs
    stderrLines,    \* lines main has printed to os.Stderr
    \* renderer goroutine (startRenderer and RenderImage)
    rPc,
    sleepLeft,      \* remaining time of time.Sleep
    locDirty,       \* local copies read under renderMu
    locNext,
    defers,         \* RenderImage's deferred calls, next to run first
    ret,            \* the value RenderImage returns
    err,            \* RenderImage's local variable err
    acq,            \* this pass: acquisitions, per resource
    rel,            \* this pass: release attempts, per resource
    acqOrder,       \* this pass: the resources acquired, in order
    relOrder,       \* this pass: the deferred calls run, in order
    live,           \* this pass: acquired and not successfully released
    leaked,         \* per resource: an earlier pass returned leaving one live
    relFailed,      \* per resource: a release call has failed, in any pass
    \* history
    reqCount,       \* requestRedraw calls so far
    lastReqAt,      \* time of the most recent requestRedraw
    reqsSinceFire,  \* requestRedraw calls since the last pass began
    burstFires,     \* passes begun since the current burst's first call
    lastFailed,     \* the last pass that returned, returned an error
    cleanupFailed,  \* this pass: a deferred cleanup call failed
    calc,           \* what the step just taken computed, if it set up a pass
    primary         \* this pass: the value of the executed return statement

viewVars == <<imageOpacity, windowWidth, windowHeight>>
schedVars == <<nextRedraw, dirty>>
lifeVars == <<wg, ctxDone, connClosed>>
loopVars == <<sleepLeft, locDirty, locNext>>
passVars == <<defers, ret, err, acq, rel, acqOrder, relOrder, live, leaked,
             relFailed, cleanupFailed, primary>>
reqHist == <<reqCount, lastReqAt, reqsSinceFire, burstFires>>
runVars == <<endEvent, runErr, exitStatus, stderrLines>>
vars == <<viewVars, schedVars, lifeVars, now, mPc, event, runVars, rPc, loopVars,
          passVars, calc, reqHist, lastFailed>>

NoEvent == [kind |-> "none"]
NoCalc == [kind |-> "none"]

Resources == {"seg", "map", "srv"}
NoneOf == [r \in Resources |-> 0]

\* ------------------------------------------------- the --opacity input
\* A float64 as the exact quotient [num, den]: den > 0 for a finite value
\* (only such quotients arise here), and 0/0, 1/0, -1/0 for NaN, +Inf, -Inf.
NaN == [num |-> 0, den |-> 0]
PosInf == [num |-> 1, den |-> 0]
NegInf == [num |-> -1, den |-> 0]
IsNaN(o) == o.num = 0 /\ o.den = 0

\* a < b for float64 values of which at most one is infinite and none NaN.
FLess(a, b) == a.num * b.den < b.num * a.den

\* Go's builtin min and max on float64: NaN if an operand is NaN.
FMin(a, b) == IF IsNaN(a) \/ IsNaN(b) THEN NaN ELSE IF FLess(b, a) THEN b ELSE a
FMax(a, b) == IF IsNaN(a) \/ IsNaN(b) THEN NaN ELSE IF FLess(a, b) THEN b ELSE a

\* initialOpacity = min(1.0, max(0.0, initialOpacity))
ClampOpacity(o) ==
    FMin([num |-> 1, den |-> 1], FMax([num |-> 0, den |-> 1], o))

\* const defaultInitialOpacity = 0.5
DefaultOpacity == [num |-> 1, den |-> 2]

\* Values --opacity can carry (strconv.ParseFloat reads NaN and Inf too).
RawOpacities ==
    {NaN, NegInf, [num |-> -1, den |-> 2], [num |-> 0, den |-> 1],
     DefaultOpacity, [num |-> 1, den |-> 1], [num |-> 3, den |-> 2], PosInf}

\* run has its arguments and has clamped initialOpacity; NewImageWindow will
\* copy it into the window object.
InitWith(initialOpacity) ==
    /\ imageOpacity = initialOpacity
    /\ windowWidth = 0
    /\ windowHeight = 0
    /\ nextRedraw = ZeroTime
    /\ dirty = FALSE
    /\ wg = 0
    /\ ctxDone = FALSE
    /\ connClosed = FALSE
    /\ now = 0
    /\ mPc = "newImageWindow"
    /\ event = NoEvent
    /\ endEvent = "none"
    /\ runErr = "nil"
    /\ exitStatus = -1
    /\ stderrLines = 0
    /\ rPc = "none"
    /\ sleepLeft = 0
    /\ locDirty = FALSE
    /\ locNext = ZeroTime
    /\ defers = <<>>
    /\ ret = "nil"
    /\ err = "nil"
    /\ acq = NoneOf
    /\ rel = NoneOf
    /\ acqOrder = <<>>
    /\ relOrder = <<>>
    /\ live = NoneOf
    /\ leaked = [r \in Resources |-> FALSE]
    /\ relFailed = [r \in Resources |-> FALSE]
    /\ reqCount = 0
    /\ lastReqAt = ZeroTime
    /\ reqsSinceFire = 0
    /\ burstFires = 0
    /\ lastFailed = FALSE
    /\ cleanupFailed = FALSE
    /\ primary = "nil"
    /\ calc = NoCalc

\* xoverlay <file>: the flag keeps its default.
Init == InitWith(ClampOpacity(DefaultOpacity))

\* xoverlay --opacity <value> <file>, for any value the flag accepts.
InputInit == \E o \in RawOpacities : InitWith(ClampOpacity(o))

\* ------------------------------------------------------------- the clock
Tick ==
    /\ event' = NoEvent
    /\ calc' = NoCalc
    /\ now < MaxTime \/ sleepLeft > 0
    /\ now' = Min(now + TickMs, MaxTime)
    /\ sleepLeft' = Max(sleepLeft - TickMs, 0)
    /\ UNCHANGED <<viewVars, schedVars, lifeVars, mPc, runVars, rPc, locDirty,
                   locNext, passVars, reqHist, lastFailed>>

\* ------------------------------------------------------- requestRedraw
\* The deadline requestRedraw stores: time.Now().Add(50 * time.Millisecond).
Deadline(t) == t + DebounceWindow

\* The environment issues at most MaxRequests calls, all inside the horizon.
CanRequest == reqCount < MaxRequests /\ now + DebounceWindow < MaxTime

\* requestRedraw: one critical section of renderMu.
RequestRedraw ==
    /\ dirty' = TRUE
    /\ nextRedraw' = Deadline(now)
    /\ reqCount' = reqCount + 1
    /\ lastReqAt' = now
    /\ reqsSinceFire' = reqsSinceFire + 1
    /\ burstFires' = IF lastReqAt = ZeroTime \/ now - lastReqAt >= DebounceWindow
                     THEN 0 ELSE burstFires

\* -------------------------------------------------- main goroutine: run
RECURSIVE Gcd(_, _)
Gcd(a, b) == IF b = 0 THEN a ELSE Gcd(b, a % b)

\* float64(n) / float64(d), d > 0, as the exact quotient in lowest terms.
Quot(n, d) == [num |-> n \div Gcd(n, d), den |-> d \div Gcd(n, d)]

\* Faulty variant of ClampX: no lower clamp.
ClampXUpperOnly(x, w) == Min(w, x)

\* min(display.windowWidth, max(0, int(event.EventX)))
ClampX(x, w) == Min(w, Max(0, x))

ClickOpacity(x, w) == Quot(ClampX(x, w), w)

\* Faulty variant of SizeChanged: only a change of width counts.
SizeChangedWidthOnly(w, h) == windowWidth # w

\* Whether a ConfigureNotify of w x h is handled as a resize.
SizeChanged(w, h) == windowWidth # w \/ windowHeight # h

mainRest == <<lifeVars, now, rPc, loopVars, passVars, lastFailed>>

\* Errors that end run before the window object exists: the image file
\* cannot be read, or NewImageWindow fails (decode, connection, shm.Init).
SetupErrors == {"read image bytes from file", "new display"}

\* run up to and including NewImageWindow. On success loadImage has stored
\* the image's size, the renderer goroutine has been started and Close is
\* deferred; on failure run returns, with nothing to close.
NewImageWindow ==
    /\ event' = NoEvent
    /\ calc' = NoCalc
    /\ mPc = "newImageWindow"
    /\ \/ /\ windowWidth' = ImgW
          /\ windowHeight' = ImgH
          /\ rPc' = "start"
          /\ mPc' = "createWindow"
          /\ UNCHANGED runErr
       \/ \E e \in SetupErrors :
            /\ runErr' = e
            /\ mPc' = "returned"
            /\ UNCHANGED <<windowWidth, windowHeight, rPc>>
    /\ UNCHANGED <<imageOpacity, schedVars, reqHist, endEvent, exitStatus,
                   stderrLines, lifeVars, now, loopVars, passVars, lastFailed>>

\* CreateWindow: on success the stored size is the image's; on failure run
\* returns and the deferred Close runs.
CreateWindow ==
    /\ event' = NoEvent
    /\ calc' = NoCalc
    /\ mPc = "createWindow"
    /\ \/ /\ windowWidth' = ImgW
          /\ windowHeight' = ImgH
          /\ mPc' = "initialDraw"
          /\ UNCHANGED runErr
       \/ /\ mPc' = "close"
          /\ runErr' = "create window"
          /\ UNCHANGED <<windowWidth, windowHeight>>
    /\ UNCHANGED <<imageOpacity, schedVars, reqHist, endEvent, exitStatus,
                   stderrLines, mainRest>>

\* run: the initial draw.
InitialDraw ==
    /\ event' = NoEvent
    /\ calc' = NoCalc
    /\ mPc = "initialDraw"
    /\ CanRequest
    /\ RequestRedraw
    /\ mPc' = "events"
    /\ UNCHANGED <<viewVars, runVars, mainRest>>

\* HandleEvents, case xproto.ConfigureNotifyEvent.
ConfigureNotify(w, h) ==
    /\ mPc = "events"
    /\ event' = [kind |-> "ConfigureNotify", w |-> w, h |-> h]
    /\ calc' = NoCalc
    /\ IF SizeChanged(w, h)
       THEN /\ CanRequest
            /\ windowWidth' = w
            /\ windowHeight' = h
            /\ RequestRedraw
       ELSE UNCHANGED <<windowWidth, windowHeight, schedVars, reqHist>>
    /\ UNCHANGED <<imageOpacity, mPc, runVars, mainRest>>

\* HandleEvents, case xproto.ButtonPressEvent.
ButtonPress(x) ==
    /\ mPc = "events"
    /\ event' = [kind |-> "ButtonPress", x |-> x]
    /\ calc' = NoCalc
    /\ CanRequest
    /\ imageOpacity' = ClickOpacity(x, windowWidth)
    /\ RequestRedraw
    /\ UNCHANGED <<windowWidth, windowHeight, mPc, runVars, mainRest>>

\* What else WaitForEvent can yield: events of kinds the switch has no case
\* for (the window's mask selects Expose and MapNotify too), a nil event
\* with an X error ("XError"), a nil event with a nil error ("Nil").
OtherKinds == {"Expose", "MapNotify", "XError", "Nil"}

\* Faulty variant of EventsResult: an X error ends the loop with an error,
\* like a lost connection.
EventsResultXErrorFatal(kind) ==
    IF kind = "DestroyNotify" THEN "nil"
    ELSE IF kind \in {"Nil", "XError"} THEN "got no event but err is nil, exiting"
    ELSE "loop"

\* Faulty variant of EventsResult: a nil event without an error ends the
\* loop like a destroy notification.
EventsResultNilOnNoEvent(kind) ==
    IF kind \in {"DestroyNotify", "Nil"} THEN "nil" ELSE "loop"

\* What HandleEvents does on a destroy notification or something of a kind in
\* OtherKinds: it returns nil, returns an error, or goes round its loop.
EventsResult(kind) ==
    IF kind = "DestroyNotify" THEN "nil"
    ELSE IF kind = "Nil" THEN "got no event but err is nil, exiting"
    ELSE "loop"

\* run after HandleEvents returned r: an error is wrapped and returned; in
\* both cases the deferred Close is due.
RunErrAfterEvents(r) == IF r = "nil" THEN "nil" ELSE "handle events"

\* HandleEvents receives a destroy notification or something of a kind in
\* OtherKinds. When it returns on it, the kind stays on record in endEvent.
PlainEvent(kind) ==
    /\ mPc = "events"
    /\ calc' = NoCalc
    /\ IF EventsResult(kind) = "loop"
       THEN /\ event' = [kind |-> kind]
            /\ UNCHANGED <<mPc, runErr, endEvent>>
       ELSE /\ event' = NoEvent
            /\ mPc' = "close"
            /\ endEvent' = kind
            /\ runErr' = RunErrAfterEvents(EventsResult(kind))
    /\ UNCHANGED <<viewVars, schedVars, reqHist, exitStatus, stderrLines,
                   mainRest>>

\* HandleEvents, case xproto.DestroyNotifyEvent: run returns, Close is due.
DestroyNotify == PlainEvent("DestroyNotify")

\* Close: display.cancelRenderer()
CancelRenderer ==
    /\ event' = NoEvent
    /\ calc' = NoCalc
    /\ mPc = "close"
    /\ ctxDone' = TRUE
    /\ mPc' = "connClose"
    /\ UNCHANGED <<viewVars, schedVars, reqHist, runVars, wg, connClosed, now,
                   rPc, loopVars, passVars, lastFailed>>

\* Close: display.conn.Close()
ConnClose ==
    /\ event' = NoEvent
    /\ calc' = NoCalc
    /\ mPc = "connClose"
    /\ connClosed' = TRUE
    /\ mPc' = "wgWait"
    /\ UNCHANGED <<viewVars, schedVars, reqHist, runVars, wg, ctxDone, now,
                   rPc, loopVars, passVars, lastFailed>>

\* Close: display.wg.Wait(): returns once the counter is zero.
WgWait ==
    /\ event' = NoEvent
    /\ calc' = NoCalc
    /\ mPc = "wgWait"
    /\ wg = 0
    /\ mPc' = "closed"
    /\ UNCHANGED <<viewVars, schedVars, reqHist, runVars, mainRest>>

\* The exit status of the process when run returned e: main prints an error
\* and returns like after nil; it does not call os.Exit.
ExitStatusAfter(e) == 0

\* What main prints when run returned e: fmt.Fprintln(os.Stderr, err).
StderrLinesAfter(e) == IF e = "nil" THEN 0 ELSE 1

\* run has returned (after the deferred Close, if it was registered): main
\* returns, and the process ends with it.
Exit ==
    /\ event' = NoEvent
    /\ calc' = NoCalc
    /\ mPc \in {"closed", "returned"}
    /\ mPc' = "exited"
    /\ exitStatus' = ExitStatusAfter(runErr)
    /\ stderrLines' = stderrLines + StderrLinesAfter(runErr)
    /\ UNCHANGED <<viewVars, schedVars, reqHist, endEvent, runErr, mainRest>>

Running == mPc # "exited"

\* ------------------------------------- renderer goroutine: startRenderer
rendRest == <<viewVars, mPc, runVars, now, reqCount, lastReqAt>>

\* display.wg.Add(1); defer display.wg.Done()
RendererStart ==
    /\ event' = NoEvent
    /\ calc' = NoCalc
    /\ Running /\ rPc = "start"
    /\ wg' = wg + 1
    /\ rPc' = "loop"
    /\ UNCHANGED <<rendRest, schedVars, ctxDone, connClosed, loopVars,
                   passVars, reqsSinceFire, burstFires, lastFailed>>

\* select: <-ctx.Done() returns (the deferred wg.Done() is next); the
\* default case starts time.Sleep(5 * time.Millisecond).
LoopSelect ==
    /\ event' = NoEvent
    /\ calc' = NoCalc
    /\ Running /\ rPc = "loop"
    /\ IF ctxDone
       THEN rPc' = "wgDone" /\ UNCHANGED sleepLeft
       ELSE rPc' = "sleep" /\ sleepLeft' = PollInterval
    /\ UNCHANGED <<rendRest, schedVars, lifeVars, locDirty, locNext,
                   passVars, reqsSinceFire, burstFires, lastFailed>>

\* The deferred display.wg.Done(): the goroutine ends.
WgDone ==
    /\ event' = NoEvent
    /\ calc' = NoCalc
    /\ Running /\ rPc = "wgDone"
    /\ wg' = wg - 1
    /\ rPc' = "done"
    /\ UNCHANGED <<rendRest, schedVars, ctxDone, connClosed, loopVars,
                   passVars, reqsSinceFire, burstFires, lastFailed>>

\* time.Sleep is over; first critical section: copy dirty and nextRedraw.
LoopRead ==
    /\ event' = NoEvent
    /\ calc' = NoCalc
    /\ Running /\ rPc = "sleep"
    /\ sleepLeft = 0
    /\ locDirty' = dirty
    /\ locNext' = nextRedraw
    /\ rPc' = "check"
    /\ UNCHANGED <<rendRest, schedVars, lifeVars, sleepLeft, passVars,
                   reqsSinceFire, burstFires, lastFailed>>

\* Faulty variant of Due: the deadline alone decides.
DueDeadlineOnly(d, t, deadline) == t > deadline

\* dirty && time.Now().After(nextRedraw), on the local copies.
Due(d, t, deadline) == d /\ t > deadline

LoopCheck ==
    /\ event' = NoEvent
    /\ calc' = NoCalc
    /\ Running /\ rPc = "check"
    /\ rPc' = IF Due(locDirty, now, locNext) THEN "clear" ELSE "loop"
    /\ locDirty' = FALSE
    /\ locNext' = ZeroTime
    /\ UNCHANGED <<rendRest, schedVars, lifeVars, sleepLeft, passVars,
                   reqsSinceFire, burstFires, lastFailed>>

\* Second critical section: display.dirty = false; then RenderImage is
\* called: the render pass begins.
LoopClear ==
    /\ event' = NoEvent
    /\ calc' = NoCalc
    /\ Running /\ rPc = "clear"
    /\ dirty' = FALSE
    /\ rPc' = "getGeometry"
    /\ reqsSinceFire' = 0
    /\ burstFires' = burstFires + 1
    /\ UNCHANGED <<rendRest, nextRedraw, lifeVars, loopVars, passVars, lastFailed>>

\* ------------------------------------------ renderer goroutine: RenderImage
\* Outcomes of a request on the X connection: it fails once conn is closed.
XOutcomes == IF connClosed THEN {FALSE} ELSE BOOLEAN

\* Outcomes of a system call (shmget, shmat, shmdt, shmctl) and of copy.
SysOutcomes == BOOLEAN

passRest == <<rendRest, schedVars, lifeVars, loopVars, reqsSinceFire,
              burstFires, lastFailed>>

\* A step of RenderImage fails: return fmt.Errorf(...). The deferred calls
\* registered so far run next.
ReturnErr(e) ==
    /\ ret' = e
    /\ err' = e
    /\ primary' = e
    /\ rPc' = "defer"

\* Faulty variant of Acquire: the release is not deferred.
AcquireNoDefer(r, cleanup) ==
    /\ acq' = [acq EXCEPT ![r] = @ + 1]
    /\ acqOrder' = Append(acqOrder, r)
    /\ live' = [live EXCEPT ![r] = @ + 1]
    /\ defers' = defers

\* Faulty variant of Acquire: the releases run in the order of acquisition.
AcquireReleaseFifo(r, cleanup) ==
    /\ acq' = [acq EXCEPT ![r] = @ + 1]
    /\ acqOrder' = Append(acqOrder, r)
    /\ live' = [live EXCEPT ![r] = @ + 1]
    /\ defers' = Append(defers, cleanup)

\* An acquisition succeeded: the resource exists and its release is deferred.
Acquire(r, cleanup) ==
    /\ acq' = [acq EXCEPT ![r] = @ + 1]
    /\ acqOrder' = Append(acqOrder, r)
    /\ live' = [live EXCEPT ![r] = @ + 1]
    /\ defers' = <<cleanup>> \o defers

\* floor(n / d) for n >= 0, d > 0: what int(...) leaves of the quotient. The
\* float64 operations are taken as exact.
Trunc(n, d) == n \div d

\* The rectangle RenderImage scales the srcW x srcH image to in a window of
\* width x height, and its offsets.
AspectFit(srcW, srcH, width, height) ==
    IF width * srcH > srcW * height
    THEN LET newWidth == Trunc(srcW * height, srcH) IN
         [width |-> newWidth, height |-> height,
          xOffset |-> (width - newWidth) \div 2, yOffset |-> 0]
    ELSE LET newHeight == Trunc(width * srcH, srcW) IN
         [width |-> width, height |-> newHeight,
          xOffset |-> 0, yOffset |-> (height - newHeight) \div 2]

\* const fullAlpha = 255
FullAlpha == 255

\* uint8(fullAlpha * display.imageOpacity): the product truncated. The
\* conversion of a NaN is implementation-dependent.
AlphaOutcomes(o) ==
    IF IsNaN(o) THEN 0..FullAlpha ELSE {Trunc(FullAlpha * o.num, o.den)}

\* xproto.GetGeometry(...).Reply(); with the reply, the fitted rectangle and
\* the mask alpha are computed from the window's size at the server and the
\* opacity field as it is now.
GetGeometry ==
    /\ event' = NoEvent
    /\ Running /\ rPc = "getGeometry"
    /\ \E ok \in XOutcomes :
        IF ok THEN /\ rPc' = "shmGet"
                   /\ \E gw \in Widths, gh \in Heights,
                         a \in AlphaOutcomes(imageOpacity) :
                        calc' = [kind |-> "render", geomW |-> gw, geomH |-> gh,
                                 fit |-> AspectFit(ImgW, ImgH, gw, gh),
                                 opacity |-> imageOpacity, alpha |-> a]
                   /\ UNCHANGED <<ret, err, primary>>
        ELSE /\ ReturnErr("get geometry")
             /\ calc' = NoCalc
    /\ UNCHANGED <<passRest, defers, acq, acqOrder, rel, relOrder, live, leaked,
                   relFailed, cleanupFailed>>

\* unix.SysvShmGet; on success defer the IPC_RMID.
ShmGet ==
    /\ event' = NoEvent
    /\ calc' = NoCalc
    /\ Running /\ rPc = "shmGet"
    /\ \E ok \in SysOutcomes :
        IF ok THEN /\ Acquire("seg", "rmid")
                   /\ rPc' = "shmAttach"
                   /\ UNCHANGED <<ret, err, primary>>
        ELSE /\ ReturnErr("create shared memory segment")
             /\ UNCHANGED <<defers, acq, acqOrder, live>>
    /\ UNCHANGED <<passRest, rel, relOrder, leaked, relFailed, cleanupFailed>>

\* unix.SysvShmAttach; on success defer the SysvShmDetach.
ShmAttach ==
    /\ event' = NoEvent
    /\ calc' = NoCalc
    /\ Running /\ rPc = "shmAttach"
    /\ \E ok \in SysOutcomes :
        IF ok THEN /\ Acquire("map", "detach")
                   /\ rPc' = "copy"
                   /\ UNCHANGED <<ret, err, primary>>
        ELSE /\ ReturnErr("attach to shared memory segment")
             /\ UNCHANGED <<defers, acq, acqOrder, live>>
    /\ UNCHANGED <<passRest, rel, relOrder, leaked, relFailed, cleanupFailed>>

\* n := copy(buf, data); n != size is an error.
CopyData ==
    /\ event' = NoEvent
    /\ calc' = NoCalc
    /\ Running /\ rPc = "copy"
    /\ \E ok \in SysOutcomes :
        IF ok THEN rPc' = "newSegId" /\ UNCHANGED <<ret, err, primary>>
        ELSE ReturnErr("copy failed")
    /\ UNCHANGED <<passRest, defers, acq, acqOrder, rel, relOrder, live, leaked,
                   relFailed, cleanupFailed>>

\* shm.NewSegId
NewSegId ==
    /\ event' = NoEvent
    /\ calc' = NoCalc
    /\ Running /\ rPc = "newSegId"
    /\ \E ok \in XOutcomes :
        IF ok THEN rPc' = "srvAttach" /\ UNCHANGED <<ret, err, primary>>
        ELSE ReturnErr("new segment id")
    /\ UNCHANGED <<passRest, defers, acq, acqOrder, rel, relOrder, live, leaked,
                   relFailed, cleanupFailed>>

\* shm.AttachChecked(...).Check(); on success defer the shm.DetachChecked.
SrvAttach ==
    /\ event' = NoEvent
    /\ calc' = NoCalc
    /\ Running /\ rPc = "srvAttach"
    /\ \E ok \in XOutcomes :
        IF ok THEN /\ Acquire("srv", "srvDetach")
                   /\ rPc' = "putImage"
                   /\ UNCHANGED <<ret, err, primary>>
        ELSE /\ ReturnErr("attach to shared memory segment (X)")
             /\ UNCHANGED <<defers, acq, acqOrder, live>>
    /\ UNCHANGED <<passRest, rel, relOrder, leaked, relFailed, cleanupFailed>>

\* shm.PutImageChecked(...).Check(); then return nil.
PutImage ==
    /\ event' = NoEvent
    /\ calc' = NoCalc
    /\ Running /\ rPc = "putImage"
    /\ \E ok \in XOutcomes :
        IF ok THEN /\ ret' = "nil"
                   /\ err' = "nil"
                   /\ primary' = "nil"
                   /\ rPc' = "defer"
        ELSE ReturnErr("put image")
    /\ UNCHANGED <<passRest, defers, acq, acqOrder, rel, relOrder, live, leaked,
                   relFailed, cleanupFailed>>

\* The resource a deferred call releases.
Releases(d) ==
    IF d = "rmid" THEN "seg" ELSE IF d = "detach" THEN "map" ELSE "srv"

\* Outcomes of a deferred call: shm.DetachChecked goes through the connection.
CleanupOutcomes(d) == IF d = "srvDetach" THEN XOutcomes ELSE SysOutcomes

\* What a deferred call leaves in RenderImage's variable err: the closure
\* around shm.DetachChecked assigns it, the other two declare their own.
ErrAfterCleanup(d, ok, e) ==
    IF d = "srvDetach" THEN (IF ok THEN "nil" ELSE "detach from shared memory (X)")
    ELSE e

\* Faulty variant of RetAfterCleanup: as if the result were the named
\* variable err.
RetNamedResult(r, e) == e

\* What a deferred call leaves in the value being returned: the result of
\* RenderImage is unnamed, so the return statement's value stands.
RetAfterCleanup(r, e) == r

\* One deferred call runs: the release is attempted, a failure is printed.
RunDeferred ==
    /\ event' = NoEvent
    /\ calc' = NoCalc
    /\ Running /\ rPc = "defer"
    /\ defers # <<>>
    /\ LET d == Head(defers) IN
       \E ok \in CleanupOutcomes(d) :
        /\ rel' = [rel EXCEPT ![Releases(d)] = @ + 1]
        /\ relOrder' = Append(relOrder, d)
        /\ live' = IF ok THEN [live EXCEPT ![Releases(d)] = @ - 1] ELSE live
        /\ cleanupFailed' = (cleanupFailed \/ ~ok)
        /\ relFailed' = [relFailed EXCEPT ![Releases(d)] = @ \/ ~ok]
        /\ err' = ErrAfterCleanup(d, ok, err)
        /\ ret' = RetAfterCleanup(ret, ErrAfterCleanup(d, ok, err))
    /\ defers' = Tail(defers)
    /\ UNCHANGED <<passRest, rPc, acq, acqOrder, leaked, primary>>

\* RenderImage has returned to startRenderer.
Returned == rPc = "defer" /\ defers = <<>>

\* Faulty variant of AfterRender: an error ends the loop.
AfterRenderStopOnError(r) == IF r = "nil" THEN "loop" ELSE "wgDone"

\* Where startRenderer goes after RenderImage returned r: an error is
\* printed and the loop goes on.
AfterRender(r) == "loop"

\* Faulty variant of DirtyAfterRender: dirty is cleared after the pass
\* instead of before it.
DirtyClearedAfterRender(r, d) == FALSE

\* What startRenderer does to dirty after RenderImage returned r: nothing.
DirtyAfterRender(r, d) == d

RenderReturn ==
    /\ event' = NoEvent
    /\ calc' = NoCalc
    /\ Running /\ Returned
    /\ rPc' = AfterRender(ret)
    /\ dirty' = DirtyAfterRender(ret, dirty)
    /\ ret' = "nil"
    /\ err' = "nil"
    /\ primary' = "nil"
    /\ acq' = NoneOf
    /\ rel' = NoneOf
    /\ acqOrder' = <<>>
    /\ relOrder' = <<>>
    /\ cleanupFailed' = FALSE
    /\ live' = NoneOf
    /\ leaked' = [r \in Resources |-> leaked[r] \/ live[r] > 0]
    /\ lastFailed' = (ret # "nil")
    /\ UNCHANGED <<rendRest, nextRedraw, lifeVars, loopVars, defers, relFailed,
                   reqsSinceFire, burstFires>>

\* ---------------------------------------------------------- specification
Main ==
    \/ NewImageWindow
    \/ CreateWindow
    \/ InitialDraw
    \/ \E w \in Widths, h \in Heights : ConfigureNotify(w, h)
    \/ \E x \in ClickXs : ButtonPress(x)
    \/ DestroyNotify
    \/ CancelRenderer
    \/ ConnClose
    \/ WgWait
    \/ Exit

Renderer ==
    \/ RendererStart
    \/ LoopSelect
    \/ WgDone
    \/ LoopRead
    \/ LoopCheck
    \/ LoopClear
    \/ GetGeometry
    \/ ShmGet
    \/ ShmAttach
    \/ CopyData
    \/ NewSegId
    \/ SrvAttach
    \/ PutImage
    \/ RunDeferred
    \/ RenderReturn

Next == Main \/ Renderer \/ Tick

Spec == Init /\ [][Next]_vars

\* The scheduler runs the renderer goroutine whenever it can take a step,
\* and time passes.
FairSpec == Spec /\ WF_vars(Renderer) /\ WF_vars(Tick)

\* The server also delivers the events HandleEvents has no case for, and the
\* connection can be lost.
OtherEvent == \E kind \in OtherKinds : PlainEvent(kind)

EventNext == Next \/ OtherEvent

EventSpec == Init /\ [][EventNext]_vars

\* The program started with any --opacity value.
InputSpec == InputInit /\ [][Next]_vars

\* ------------------------------------------------- accesses and renderMu
\* An access to a field of the window object: whether it writes, and whether
\* the goroutine holds renderMu while it makes it.
Access(f, w, l) == [field |-> f, write |-> w, locked |-> l]

\* The accesses the main goroutine's next step can make. CreateWindow stores
\* the size; requestRedraw locks; HandleEvents compares and stores the size
\* and stores the opacity without locking.
MainAccesses ==
    IF mPc = "createWindow"
    THEN {Access("windowWidth", TRUE, FALSE), Access("windowHeight", TRUE, FALSE)}
    ELSE IF mPc = "initialDraw"
    THEN {Access("dirty", TRUE, TRUE), Access("nextRedraw", TRUE, TRUE)}
    ELSE IF mPc = "events"
    THEN {Access("windowWidth", FALSE, FALSE), Access("windowHeight", FALSE, FALSE),
          Access("windowWidth", TRUE, FALSE), Access("windowHeight", TRUE, FALSE),
          Access("imageOpacity", TRUE, FALSE),
          Access("dirty", TRUE, TRUE), Access("nextRedraw", TRUE, TRUE)}
    ELSE {}

\* The accesses the renderer goroutine's next step can make: the loop copies
\* dirty and nextRedraw and clears dirty in critical sections; RenderImage
\* reads the opacity without locking, once it has the geometry.
RendererAccesses ==
    IF rPc = "sleep"
    THEN {Access("dirty", FALSE, TRUE), Access("nextRedraw", FALSE, TRUE)}
    ELSE IF rPc = "clear"
    THEN {Access("dirty", TRUE, TRUE)}
    ELSE IF rPc = "getGeometry" /\ ~connClosed
    THEN {Access("imageOpacity", FALSE, FALSE)}
    ELSE {}

\* ------------------------------------------------------------ properties
\* The renderer is inside RenderImage.
InPass == rPc \in {"getGeometry", "shmGet", "shmAttach", "copy", "newSegId",
                   "srvAttach", "putImage", "defer"}

\* A render pass has begun at some time: every requestRedraw adds one to
\* both counters, and the beginning of a pass resets reqsSinceFire.
PassBegun == reqsSinceFire < reqCount

\* C1: a render pass never begins before notBefore: when the loop is about
\* to clear dirty and call RenderImage, the clock is past the current
\* nextRedraw.
C1_NeverBeforeNotBefore == rPc = "clear" => now > nextRedraw

\* The race of C1 in flight: a requestRedraw ran after the loop copied
\* dirty/nextRedraw, and the loop goes on to render on the stale copy.
C1_StaleDeadline == rPc = "clear" /\ dirty /\ now <= nextRedraw

\* C2: a burst of requestRedraw calls, each less than the debounce window
\* after the previous, gets at most one render pass, and that pass begins
\* no earlier than the debounce window after the burst's last call.
C2_BurstOnePass ==
    /\ burstFires <= 1
    /\ rPc = "clear" => now >= lastReqAt + DebounceWindow

\* C3: no change is lost: after a requestRedraw, unless shutdown begins,
\* a render pass begins after the last requestRedraw, returns, and leaves
\* the scheduler idle with dirty = false.
C3_NoChangeLost ==
    (reqsSinceFire > 0) ~>
        (ctxDone \/ (reqsSinceFire = 0 /\ ~dirty /\ rPc = "loop"))

\* A requestRedraw has been recorded while a render pass is in flight.
C3_RequestDuringPass == InPass /\ dirty /\ reqsSinceFire > 0 /\ ~ctxDone

\* C4: once Close has returned, the renderer goroutine has terminated (so
\* no RenderImage call is running or starts afterwards).
C4_CloseWaitsForRenderer == mPc = "closed" => rPc = "done"

\* C5: the connection is closed only after the renderer goroutine has
\* exited, so no step of RenderImage runs on a closed connection.
C5_ConnClosedAfterRenderer == connClosed => rPc = "done"

\* A render pass in flight on a closed connection, while Close still waits.
C5_RenderOnClosedConn == connClosed /\ mPc = "wgWait" /\ rPc = "getGeometry"

\* C6 as claimed: at return the releases balance the acquisitions, hence at
\* most one segment exists at any time and none exists between passes.
C6_NoSegmentLeft ==
    /\ Returned => acq = rel
    /\ live["seg"] + (IF leaked["seg"] THEN 1 ELSE 0) <= 1
    /\ (Returned \/ ~InPass) => (live["seg"] = 0 /\ ~leaked["seg"])

\* C6, amended: at return every acquisition has had its release attempted
\* (create/IPC_RMID, attach/detach and server attach/detach balance); for a
\* resource none of whose release calls has failed, at most one exists at
\* any time and none exists once the pass has returned.
C6_ReleaseAttempted ==
    /\ Returned => acq = rel
    /\ \A r \in Resources :
        ~relFailed[r] =>
            /\ live[r] <= 1
            /\ ~leaked[r]
            /\ (Returned \/ ~InPass) => live[r] = 0

\* A pass that acquired all three resources, failed at put-image and has
\* returned with all three released.
C6_FailedPassReleased ==
    /\ Returned
    /\ ret = "put image"
    /\ \A r \in Resources : acq[r] = 1 /\ rel[r] = 1 /\ live[r] = 0

\* C7: the value RenderImage returns is the value of the return statement
\* it executed; a failed cleanup call changes it neither from nil nor from
\* the error of the failed step.
C7_CleanupNeverChangesResult == InPass => ret = primary

\* A successful pass has returned nil although its server detach failed.
C7_CleanupFailedAfterSuccess ==
    /\ Returned
    /\ cleanupFailed
    /\ err # "nil"
    /\ ret = "nil"

\* C8: a failed pass is not retried and does not stop the loop: a pass
\* begins only after a requestRedraw made since the previous pass began,
\* dirty is set only by such a request, a pass begun for a single such
\* request begins after that request's debounce window, and when
\* RenderImage returns, with an error or without, the loop goes on with
\* dirty and nextRedraw as they are.
C8_ErrorsNotRetried ==
    /\ [](rPc = "clear" => reqsSinceFire > 0)
    /\ [](dirty => reqsSinceFire > 0)
    /\ []((rPc = "clear" /\ reqsSinceFire = 1) => now > nextRedraw)
    /\ [][(Returned /\ ~Returned') =>
            (rPc' = "loop" /\ dirty' = dirty /\ nextRedraw' = nextRedraw)]_vars

\* A pass failed, and a later requestRedraw has begun a new pass.
C8_PassAfterFailedPass == lastFailed /\ rPc = "getGeometry"

\* C9: a ConfigureNotify of the stored size changes nothing and requests no
\* redraw; one of another size stores the event's size and calls
\* requestRedraw exactly once.
C9_ResizeHandling ==
    [][event'.kind = "ConfigureNotify" =>
        IF event'.w = windowWidth /\ event'.h = windowHeight
        THEN UNCHANGED <<windowWidth, windowHeight, imageOpacity, dirty,
                         nextRedraw, reqCount>>
        ELSE /\ windowWidth' = event'.w
             /\ windowHeight' = event'.h
             /\ imageOpacity' = imageOpacity
             /\ reqCount' = reqCount + 1
             /\ dirty'
             /\ nextRedraw' = now + DebounceWindow]_vars

\* A ConfigureNotify that changed only the height has been handled.
C9_HeightResized ==
    /\ event.kind = "ConfigureNotify"
    /\ windowWidth = ImgW
    /\ windowHeight = ImgH + 1
    /\ reqCount = 2

\* C10: a ButtonPress at x sets the opacity to min(w, max(0, x)) / w for the
\* stored width w, leaves the stored size and calls requestRedraw exactly
\* once, also when the opacity does not change.
C10_ClickHandling ==
    [][(event'.kind = "ButtonPress" /\ windowWidth > 0) =>
        /\ imageOpacity'.den > 0
        /\ imageOpacity'.num * windowWidth =
               imageOpacity'.den * Min(windowWidth, Max(0, event'.x))
        /\ UNCHANGED <<windowWidth, windowHeight>>
        /\ reqCount' = reqCount + 1
        /\ dirty'
        /\ nextRedraw' = now + DebounceWindow]_vars

\* A click left of the window has set the opacity to 0.
C10_ClickLeftOfWindow ==
    /\ event.kind = "ButtonPress"
    /\ event.x < 0
    /\ imageOpacity = [num |-> 0, den |-> 1]

\* C11: from the first render on, imageOpacity lies in [0,1]: the clamp of
\* run puts every --opacity input there before the window object is built,
\* and resizes and clicks keep it there.
C11_OpacityInRange ==
    PassBegun =>
        /\ imageOpacity.den > 0
        /\ 0 <= imageOpacity.num
        /\ imageOpacity.num <= imageOpacity.den

\* A render pass is in flight while imageOpacity is NaN.
C11_PassWithNaN == IsNaN(imageOpacity) /\ rPc = "shmGet"

\* C12: HandleEvents returns only on a DestroyNotify, and then nil, or on a
\* nil event with a nil error, and then an error (run returns nil in the
\* first case and the wrapped error in the second); it never goes on after
\* one of these two, and on anything else it goes on; and the next step of
\* run after the return is Close, whose first act cancels the renderer.
C12_EventLoopTermination ==
    /\ [](endEvent \in {"none", "DestroyNotify", "Nil"})
    /\ [](event.kind \notin {"DestroyNotify", "Nil"})
    /\ [](endEvent = "DestroyNotify" => runErr = "nil")
    /\ [](endEvent = "Nil" => runErr = "handle events")
    /\ [][/\ (mPc = "events" /\ mPc' # "events") <=> endEvent' # endEvent
          /\ endEvent' # endEvent => (endEvent = "none" /\ mPc' = "close")
          /\ (mPc = "close" /\ mPc' # "close") =>
                (mPc' = "connClose" /\ ctxDone')]_vars

\* HandleEvents returned the protocol-loss error and Close has cancelled the
\* renderer.
C12_ProtocolLossClosed == runErr = "handle events" /\ ctxDone

\* C13: when run returns an error the process prints one diagnostic line and
\* ends with a non-zero exit status; it ends with status zero, and prints
\* nothing, only when run returned no error.
C13_ExitStatus ==
    mPc = "exited" =>
        /\ stderrLines = (IF runErr = "nil" THEN 0 ELSE 1)
        /\ exitStatus = 0 <=> runErr = "nil"

\* The process has ended with status zero after run returned an error.
C13_ErrorExitZero ==
    mPc = "exited" /\ runErr = "handle events" /\ exitStatus = 0

\* C14: a render pass is begun only after CreateWindow has returned without
\* an error: none while run is still setting up or creating the window
\* (although the renderer goroutine runs since NewImageWindow), and none, ever,
\* in a run in which the setup or CreateWindow failed.
C14_NoRenderBeforeWindow ==
    (rPc = "clear" \/ InPass \/ PassBegun) =>
        /\ mPc \notin {"newImageWindow", "createWindow", "returned"}
        /\ runErr \notin SetupErrors \cup {"create window"}

\* CreateWindow has failed and the renderer goroutine is polling, its
\* deadline (the zero time) long past.
C14_PollingAfterFailedCreate ==
    runErr = "create window" /\ rPc = "check" /\ now > nextRedraw /\ ~ctxDone

\* n / d rounded to the nearest integer, halves upwards (n >= 0, d > 0).
Round(n, d) == (2 * n + d) \div (2 * d)

\* C15: the mask alpha a render pass uses is round(255 * opacity), for every
\* opacity x/w with 0 <= x <= w that a click can set.
C15_AlphaRounded ==
    (calc.kind = "render" /\ ~IsNaN(calc.opacity)) =>
        calc.alpha = Round(FullAlpha * calc.opacity.num, calc.opacity.den)

\* A pass has computed its mask alpha from the opacity 1/2.
C15_AlphaOfHalf ==
    /\ calc.kind = "render"
    /\ calc.opacity = [num |-> 1, den |-> 2]
    /\ calc.alpha = 127

\* C16: the rectangle a render pass fits into a targetW x targetH window is
\* round(srcW * targetH / srcH) x targetH, offset horizontally by half the
\* rest, when targetW/targetH > srcW/srcH, and targetW x
\* round(targetW * srcH / srcW), offset vertically by half the rest,
\* otherwise; it is no larger than the window.
C16_AspectFitRounded ==
    calc.kind = "render" =>
        LET tw == calc.geomW
            th == calc.geomH
            f == calc.fit
        IN  /\ f.width <= tw
            /\ f.height <= th
            /\ IF tw * ImgH > ImgW * th
               THEN /\ f.width = Round(ImgW * th, ImgH)
                    /\ f.height = th
                    /\ f.xOffset = (tw - f.width) \div 2
                    /\ f.yOffset = 0
               ELSE /\ f.width = tw
                    /\ f.height = Round(tw * ImgH, ImgW)
                    /\ f.xOffset = 0
                    /\ f.yOffset = (th - f.height) \div 2

\* A pass has fitted the image into a window narrower than the image is
\* wide, and the fitted height is 0.
C16_FitOfHeightZero ==
    calc.kind = "render" /\ calc.geomW < ImgW /\ calc.fit.height = 0

\* C17: the loop's test and its clearing of dirty are one atomic step with
\* respect to requestRedraw: what the loop tests is what the fields hold (no
\* requestRedraw between its reading them and the test), and when it clears
\* dirty the fields still pass the test (none between the test and the clear).
C17_TestAndClearAtomic ==
    /\ rPc = "check" => (locDirty = dirty /\ locNext = nextRedraw)
    /\ rPc = "clear" => Due(dirty, now, nextRedraw)

\* The loop has cleared dirty and begun a pass although the deadline of the
\* latest requestRedraw, which it did not see, has not passed.
C17_UnobservedRequestCleared ==
    rPc = "getGeometry" /\ ~dirty /\ reqsSinceFire = 0 /\ now <= nextRedraw

\* C18: while the event loop and the renderer loop both run, every access to
\* imageOpacity, windowWidth, windowHeight, dirty and nextRedraw is made
\* holding renderMu, so that never one goroutine is about to write a field
\* the other is about to access with one of them not holding the lock (and
\* the pass reads the opacity under the lock).
C18_LockDiscipline ==
    (mPc = "events" /\ rPc \notin {"none", "done"}) =>
        /\ \A a \in MainAccesses \cup RendererAccesses : a.locked
        /\ \A a \in MainAccesses, b \in RendererAccesses :
              (a.field = b.field /\ (a.write \/ b.write)) =>
                  (a.locked /\ b.locked)

\* HandleEvents can store the opacity while RenderImage is about to read it,
\* neither holding renderMu.
C18_OpacityRace ==
    /\ Access("imageOpacity", TRUE, FALSE) \in MainAccesses
    /\ Access("imageOpacity", FALSE, FALSE) \in RendererAccesses

\* C19: the cleanup calls of a pass run in the reverse order of the
\* acquisitions, which are made in the order segment, process attach, server
\* attach: the calls run so far and those still deferred are, in this order,
\* the releases of the resources acquired, last acquired first; and a
\* cleanup call runs only for a resource that was acquired.
C19_CleanupOrder ==
    LET cleanups == relOrder \o defers
        n == Len(acqOrder)
    IN  /\ acqOrder = SubSeq(<<"seg", "map", "srv">>, 1, n)
        /\ Len(cleanups) = n
        /\ \A i \in 1..n : Releases(cleanups[i]) = acqOrder[n + 1 - i]
        /\ \A i \in 1..Len(relOrder) : acq[Releases(relOrder[i])] = 1
        /\ Returned => relOrder = SubSeq(<<"srvDetach", "detach", "rmid">>, 4 - n, 3)

\* A pass that failed at the server attach has returned: the process detach
\* ran, then the removal of the segment, and no server detach.
C19_TwoCleanups ==
    /\ Returned
    /\ ret = "attach to shared memory segment (X)"
    /\ relOrder = <<"detach", "rmid">>

\* C20: an event that is neither a ConfigureNotify of another size than the
\* stored one, nor a ButtonPress, nor a DestroyNotify (an Expose, an event of
\* another kind, a nil event with an X error) leaves imageOpacity, the stored
\* size, dirty and nextRedraw as they are, calls no requestRedraw and does
\* not end the loop.
C20_IgnoredEvents ==
    /\ [](endEvent \notin {"Expose", "MapNotify", "XError", "ConfigureNotify"})
    /\ [][(\/ event'.kind \in {"Expose", "MapNotify", "XError"}
           \/ /\ event'.kind = "ConfigureNotify"
              /\ event'.w = windowWidth
              /\ event'.h = windowHeight) =>
            /\ UNCHANGED <<imageOpacity, windowWidth, windowHeight, dirty,
                           nextRedraw, reqCount>>
            /\ mPc' = "events"]_vars

\* A nil event with an X error has been received while a redraw is pending,
\* and the loop goes on.
C20_XErrorIgnored == event.kind = "XError" /\ dirty /\ mPc = "events"

====
